---- MODULE Spec2Model ----
(***************************************************************************)
(* cpphots, python tools: the time-surface viewer (tsvisualizer.py) and    *)
(* the plotting helpers (tsplot.py).                                       *)
(*                                                                         *)
(* The viewer is a state machine on the fields of TSVisualizer and of its  *)
(* ControlToolbar; every handler is a function on the record of these      *)
(* fields and every event is one action.  Arrays are modelled by their     *)
(* shapes, texts by their sequences of characters.  The plotting library   *)
(* and Qt are not part of the sources: what the handlers need from them    *)
(* (the outcome of figure.subplots, whether an exception in a slot ends    *)
(* the application) is an input of the action.                             *)
(*                                                                         *)
(* Three specifications:                                                   *)
(*   Spec      the viewer from start-up, with files, dialogs, tool bar     *)
(*   PageSpec  the viewer paging through a loaded file                     *)
(*   PlotSpec  the functions of tsplot.py, applied to lists of surfaces    *)
(***************************************************************************)
EXTENDS Integers, Sequences, FiniteSets, TLC

\* Bounds of the inputs
MaxLines == 4       \* lines of a data file (header line included)
MaxDim == 2         \* largest number of rows / columns typed in the tool bar
MaxIdx == 3         \* largest number typed in the index field
MaxTotal == 6       \* PageSpec: surfaces in the loaded file
MaxGrid == 3        \* PageSpec: rows and columns of the arrangement
MaxSide == 2        \* PlotSpec: rows and columns of a surface
MaxPlots == 13      \* PlotSpec: surfaces in a list

\* len(mcd.CSS4_COLORS): the named colours plot_multiple_ts indexes
NumColors == 148

(***************************************************************************)
(* Python values.                                                          *)
(***************************************************************************)
None == [tag |-> "None"]
Some(val) == [tag |-> "Some", v |-> val]

\* Python's // and % (floor division; the remainder takes the divisor's sign).
PyFloorDiv(a, b) == a \div b
PyMod(a, b) == a - b * (a \div b)

Range(s) == {s[k] : k \in 1..Len(s)}

RECURSIVE Prod(_)
Prod(s) == IF s = <<>> THEN 1 ELSE Head(s) * Prod(Tail(s))

(***************************************************************************)
(* Texts: str(n) and int(text).                                            *)
(***************************************************************************)
DigitChars == <<"0", "1", "2", "3", "4", "5", "6", "7", "8", "9">>
IsDigit(c) == c \in Range(DigitChars)
DigitVal(c) == (CHOOSE k \in 1..10 : DigitChars[k] = c) - 1

RECURSIVE StrNat(_)
StrNat(n) == IF n < 10 THEN <<DigitChars[n + 1]>>
             ELSE StrNat(n \div 10) \o <<DigitChars[(n % 10) + 1]>>

\* str(n) for an integer n
Str(n) == IF n < 0 THEN <<"-">> \o StrNat(-n) ELSE StrNat(n)

\* text.strip()
RECURSIVE Strip(_)
Strip(t) == IF t = <<>> THEN t
            ELSE IF Head(t) = " " THEN Strip(Tail(t))
            ELSE IF t[Len(t)] = " " THEN Strip(SubSeq(t, 1, Len(t) - 1))
            ELSE t

RECURSIVE DigitsVal(_)
DigitsVal(t) == IF t = <<>> THEN 0
                ELSE 10 * DigitsVal(SubSeq(t, 1, Len(t) - 1)) + DigitVal(t[Len(t)])

\* The digits of a stripped text, after its optional sign
Unsigned(s) == IF s # <<>> /\ Head(s) \in {"-", "+"} THEN Tail(s) ELSE s

AllDigits(b) == b # <<>> /\ \A k \in 1..Len(b) : IsDigit(b[k])

IntOf(s) ==
    [ok |-> AllDigits(Unsigned(s)),
     val |-> IF ~AllDigits(Unsigned(s)) THEN 0
             ELSE IF Head(s) = "-" THEN -DigitsVal(Unsigned(s))
             ELSE DigitsVal(Unsigned(s))]

\* int(text): surrounding blanks are ignored, an optional sign, then digits;
\* anything else is a ValueError (ok = FALSE).
ParseInt(t) == IntOf(Strip(t))

\* text.split(c) for a one-character separator c
RECURSIVE Split(_, _)
Split(t, c) ==
    IF \A k \in 1..Len(t) : t[k] # c THEN <<t>>
    ELSE LET p == CHOOSE k \in 1..Len(t) : t[k] = c /\ \A j \in 1..(k - 1) : t[j] # c
         IN  <<SubSeq(t, 1, p - 1)>> \o Split(SubSeq(t, p + 1, Len(t)), c)

\* sub in line (substring test)
Contains(t, sub) ==
    \E k \in 0..(Len(t) - Len(sub)) : SubSeq(t, k + 1, k + Len(sub)) = sub

TSDATA == <<"T", "S", "D", "A", "T", "A">>
TIMES == <<"T", "I", "M", "E", "S">>

(***************************************************************************)
(* State.  The fields of TSVisualizer and of its ControlToolbar keep the   *)
(* names of the source (without the leading underscore); the variables of  *)
(* the second group are the arguments, the locals and the effects of the   *)
(* functions of tsplot.py.                                                 *)
(***************************************************************************)
VARIABLES
    data,        \* _data: None, or the shape of the loaded array
    ndata,       \* _ndata
    x,           \* _x: None, or the length of the arange
    y,           \* _y: None, or the length of the arange
    times,       \* _times: None, or the length of the times column
    subplots,    \* _subplots: <<rows, cols>>
    nsubplots,   \* _nsubplots
    axs,         \* _axs: "array" (of axes), or "scalar" (a single Axes)
    current,     \* _current
    rows_le,     \* ControlToolbar._rows_le text
    cols_le,     \* ControlToolbar._cols_le text
    idx_le,      \* ControlToolbar._idx_le text
    total_lbl,   \* ControlToolbar._total text (the number after " / ")
    playact,     \* ControlToolbar._playact icon text
    timer,       \* _timer.isActive()
    alive,       \* the application is running
    last,        \* history: the last handler run, its input and its outcome
    fn,          \* tsplot: the function called, "" before the call
    tss,         \* tsplot: the shapes of the surfaces passed
    arrangement, \* plot_multiple_ts: the argument, None or <<rows, cols>>
    colorcode,   \* plot_multiple_ts: the argument
    rows,        \* plot_multiple_ts: the local
    cols,        \* plot_multiple_ts: the local
    i,           \* plot_multiple_ts: the loop variable
    pc,          \* tsplot: "idle", "loop", "done", "raised"
    calls,       \* the calls of plot_ts_1d / plot_ts_2d, in order
    shows        \* the number of plt.show() calls

viewvars == <<data, ndata, x, y, times, subplots, nsubplots, axs, current,
              rows_le, cols_le, idx_le, total_lbl>>

plotvars == <<fn, tss, arrangement, colorcode, rows, cols, i, pc, calls, shows>>

vars == <<data, ndata, x, y, times, subplots, nsubplots, axs, current,
          rows_le, cols_le, idx_le, total_lbl, playact, timer, alive, last,
          fn, tss, arrangement, colorcode, rows, cols, i, pc, calls, shows>>

\* The fields as one record: the handlers below are functions on it.
View == [data |-> data, ndata |-> ndata, x |-> x, y |-> y, times |-> times,
         subplots |-> subplots, nsubplots |-> nsubplots, axs |-> axs,
         current |-> current, rows_le |-> rows_le, cols_le |-> cols_le,
         idx_le |-> idx_le, total_lbl |-> total_lbl]

SetView(v) ==
    /\ data' = v.data /\ ndata' = v.ndata /\ x' = v.x /\ y' = v.y
    /\ times' = v.times /\ subplots' = v.subplots /\ nsubplots' = v.nsubplots
    /\ axs' = v.axs /\ current' = v.current /\ rows_le' = v.rows_le
    /\ cols_le' = v.cols_le /\ idx_le' = v.idx_le /\ total_lbl' = v.total_lbl

InitView(v) ==
    /\ data = v.data /\ ndata = v.ndata /\ x = v.x /\ y = v.y
    /\ times = v.times /\ subplots = v.subplots /\ nsubplots = v.nsubplots
    /\ axs = v.axs /\ current = v.current /\ rows_le = v.rows_le
    /\ cols_le = v.cols_le /\ idx_le = v.idx_le /\ total_lbl = v.total_lbl

\* The locals of change_data, kept for the history: rows, cols, hastimes,
\* skipheader, delimiter, and the answer to the shape dialog if it was shown.
NoLocals == [rows |-> 0, cols |-> 0, hastimes |-> FALSE, skipheader |-> 0,
             delimiter |-> None, dialog |-> None]

\* How a handler ends: the fields it leaves, its outcome ("ok", "invalid",
\* "return", "quit", "raise") and the statement that raised.
Ok(v) == [v |-> v, out |-> "ok", where |-> "", loc |-> NoLocals]
Raise(v, w) == [v |-> v, out |-> "raise", where |-> w, loc |-> NoLocals]
Invalid(v) == [v |-> v, out |-> "invalid", where |-> "", loc |-> NoLocals]

(***************************************************************************)
(* ControlToolbar: the texts.                                              *)
(***************************************************************************)
\* update_number()
update_number(v) == [v EXCEPT !.idx_le = Str(v.current + 1)]

\* A reset() that always shows current + 1 in the index field.
reset_plain_index(v) ==
    [v EXCEPT !.rows_le = Str(v.subplots[1]),
              !.cols_le = Str(v.subplots[2]),
              !.idx_le = Str(v.current + 1),
              !.total_lbl = Str(v.ndata)]

\* reset()
reset(v) ==
    [v EXCEPT !.rows_le = Str(v.subplots[1]),
              !.cols_le = Str(v.subplots[2]),
              !.idx_le = IF v.ndata = 0 THEN Str(0) ELSE Str(v.current + 1),
              !.total_lbl = Str(v.ndata)]

(***************************************************************************)
(* TSVisualizer: paging.                                                   *)
(***************************************************************************)
\* is2d(): the source returns "self._y is None"
is2d(v) == v.y = None

\* plot_current() raises: _axs is a single Axes, which enumerate cannot
\* iterate.  Without data it returns at once.  Drawing itself is the plotting
\* library's and changes no field.
plot_current_raises(v) == v.data # None /\ v.axs = "scalar"

\* The last multiple of nsubplots that is <= ndata.
LastPageUnadjusted(v) == v.nsubplots * PyFloorDiv(v.ndata, v.nsubplots)

\* The start of the last page, as set_current computes it (twice).
LastPage(v) ==
    IF v.nsubplots * PyFloorDiv(v.ndata, v.nsubplots) = v.ndata
    THEN v.nsubplots * PyFloorDiv(v.ndata, v.nsubplots) - v.nsubplots
    ELSE v.nsubplots * PyFloorDiv(v.ndata, v.nsubplots)

\* A paging that stops at either end instead of going to the other.
wrap_index_clamped(v, n) ==
    IF n < 0 THEN 0 ELSE IF n >= v.ndata THEN LastPage(v) ELSE n

\* set_current, wrap: go to the other end
wrap_index(v, n) ==
    IF (IF n >= v.ndata THEN 0 ELSE n) < 0 THEN LastPage(v)
    ELSE IF n >= v.ndata THEN 0 ELSE n

\* A seek that goes to the other end as paging does.
bound_index_wrapping(v, n) == wrap_index(v, n)

\* set_current, not wrap: just check boundaries
bound_index(v, n) ==
    IF (IF n >= v.ndata THEN LastPage(v) ELSE n) < 0 THEN 0
    ELSE IF n >= v.ndata THEN LastPage(v) ELSE n

\* The index set_current stores for newcurrent (nsubplots # 0).
NewCurrent(v, newcurrent, wrap) ==
    IF wrap THEN wrap_index(v, newcurrent - PyMod(newcurrent, v.nsubplots))
    ELSE bound_index(v, newcurrent - PyMod(newcurrent, v.nsubplots))

\* set_current after _current is stored: plot_current(), update_number()
show_current(v) ==
    IF plot_current_raises(v) THEN Raise(v, "plot_current")
    ELSE Ok(update_number(v))

\* set_current(newcurrent, wrap).  The remainder by nsubplots = 0 is a
\* ZeroDivisionError before anything is stored.
set_current(v, newcurrent, wrap) ==
    IF v.nsubplots = 0 THEN Raise(v, "set_current")
    ELSE show_current([v EXCEPT !.current = NewCurrent(v, newcurrent, wrap)])

advance(v) == set_current(v, v.current + v.nsubplots, TRUE)
goback(v) == set_current(v, v.current - v.nsubplots, TRUE)

(***************************************************************************)
(* TSVisualizer: arrangement.                                              *)
(*   figure.subplots(nrows, ncols) is the plotting library's: it raises    *)
(*   for a negative number, raises or returns an empty array for 0         *)
(*   (the version decides), returns a single Axes for 1 x 1 (which has no  *)
(*   reshape: AttributeError), and an array of axes otherwise.             *)
(***************************************************************************)
SubplotsOutcomes(s) ==
    IF s[1] < 0 \/ s[2] < 0 THEN {"raise"}
    ELSE IF s[1] = 0 \/ s[2] = 0 THEN {"raise", "empty"}
    ELSE IF s[1] * s[2] = 1 THEN {"scalar"}
    ELSE {"array"}

\* rearrange_plots: _subplots and _nsubplots
set_subplots(v, arg) ==
    IF arg = None THEN [v EXCEPT !.nsubplots = v.subplots[1] * v.subplots[2]]
    ELSE [v EXCEPT !.subplots = arg.v, !.nsubplots = arg.v[1] * arg.v[2]]

\* rearrange_plots after the axes are made: _current = 0, plot_current()
first_page(v) ==
    IF plot_current_raises(v) THEN Raise(v, "plot_current") ELSE Ok(v)

\* rearrange_plots: the axes, with oc what the plotting library answered
make_axes(v, oc) ==
    IF oc = "raise" THEN Raise(v, "subplots")
    ELSE IF oc = "scalar" THEN Raise([v EXCEPT !.axs = "scalar"], "reshape")
    ELSE first_page([v EXCEPT !.axs = "array", !.current = 0])

\* rearrange_plots(subplots)
rearrange_plots(v, arg, oc) == make_axes(set_subplots(v, arg), oc)

(***************************************************************************)
(* ControlToolbar: the handlers.                                           *)
(***************************************************************************)
\* change_number(), the index field holding v.idx_le
change_number(v) ==
    IF ~ParseInt(v.idx_le).ok THEN Invalid(reset(v))
    ELSE set_current(v, ParseInt(v.idx_le).val - 1, FALSE)

\* change_arrangement(), the fields holding v.rows_le and v.cols_le
change_arrangement(v, oc) ==
    IF ~ParseInt(v.rows_le).ok \/ ~ParseInt(v.cols_le).ok THEN Invalid(reset(v))
    ELSE rearrange_plots(v, Some(<<ParseInt(v.rows_le).val, ParseInt(v.cols_le).val>>), oc)

(***************************************************************************)
(* TSDialog and the data file.                                             *)
(*   A file is [first, nlines, row]: its first line (stripped), its number *)
(*   of lines, and the text of each of its data lines.                     *)
(*   A dialog answer is [accepted, rows, cols, times, sep].                *)
(***************************************************************************)
\* TSDialog.get_shape()
get_shape(d) ==
    IF ~ParseInt(d.rows).ok \/ ~ParseInt(d.cols).ok THEN None
    ELSE Some(<<ParseInt(d.rows).val, ParseInt(d.cols).val>>)

\* TSDialog.get_hastimes()
get_hastimes(d) == d.times

\* TSDialog.get_delimiter()
get_delimiter(d) == IF d.sep = <<>> THEN None ELSE Some(d.sep)

\* The values np.genfromtxt finds on a data line: separated by blanks for
\* delimiter None, else by the delimiter (one character in this model).
NumFields(row, delimiter) ==
    IF delimiter = None
    THEN Len(SelectSeq(Split(row, " "), LAMBDA t : t # <<>>))
    ELSE Len(Split(row, Head(delimiter.v)))

\* np.squeeze of a shape
Squeeze(sh) == SelectSeq(sh, LAMBDA d : d # 1)

\* The shape of np.genfromtxt(datapath, skip_header, delimiter): one row per
\* remaining line, one column per value, squeezed.
genfromtxt(f, skipheader, delimiter) ==
    Squeeze(<<f.nlines - skipheader, NumFields(f.row, delimiter)>>)

\* change_data, the end: the tool bar is reset if it exists (tb), and the
\* plots are rearranged if replot.
finish_load(v, replot, tb, oc) ==
    IF replot THEN rearrange_plots(IF tb THEN reset(v) ELSE v, None, oc)
    ELSE Ok(IF tb THEN reset(v) ELSE v)

\* change_data: _ndata, _x, _y from the shape of _data.  shape[0] of a
\* 0-dimensional array and shape[1] of a 1-dimensional one are IndexErrors.
set_axes_fields(v, replot, tb, oc) ==
    IF Len(v.data.v) < 1 THEN Raise(v, "shape")
    ELSE IF Len(v.data.v) < 2 THEN Raise([v EXCEPT !.ndata = v.data.v[1]], "shape")
    ELSE finish_load([v EXCEPT !.ndata = v.data.v[1],
                               !.x = Some(v.data.v[2]),
                               !.y = IF Len(v.data.v) > 2 THEN Some(v.data.v[3])
                                     ELSE None],
                     replot, tb, oc)

\* change_data: _data.reshape(-1, rows, cols) if cols > 1; a ValueError if
\* the values do not fill whole surfaces.
reshape_data(v, loc, replot, tb, oc) ==
    IF loc.cols <= 1 THEN set_axes_fields(v, replot, tb, oc)
    ELSE IF loc.rows < 1 \/ PyMod(Prod(v.data.v), loc.rows * loc.cols) # 0
    THEN Raise(v, "reshape_data")
    ELSE set_axes_fields(
             [v EXCEPT !.data = Some(<<Prod(v.data.v) \div (loc.rows * loc.cols),
                                       loc.rows, loc.cols>>)],
             replot, tb, oc)

\* change_data: the times column, _data[:, 0] and _data[:, 1:]; an
\* IndexError if _data has a single dimension.
split_times(v, loc, replot, tb, oc) ==
    IF ~loc.hastimes THEN reshape_data([v EXCEPT !.times = None], loc, replot, tb, oc)
    ELSE IF Len(v.data.v) < 2 THEN Raise(v, "times")
    ELSE reshape_data([v EXCEPT !.times = Some(v.data.v[1]),
                                !.data = Some(<<v.data.v[1], v.data.v[2] - 1>>)],
                      loc, replot, tb, oc)

\* change_data from np.genfromtxt on: the file is read, the fields are set.
load_data(v, f, loc, replot, tb, oc) ==
    split_times([v EXCEPT !.data = Some(genfromtxt(f, loc.skipheader, loc.delimiter))],
                loc, replot, tb, oc)

\* The outcome of change_data with its locals.
WithLocals(r, loc) == [r EXCEPT !.loc = loc]

\* change_data: the first line is a TSDATA header; toks is line.split(" ").
\* int() of a missing or malformed number raises.
header_data(v, f, toks, hastimes, replot, tb, oc) ==
    IF Len(toks) < 3 \/ ~ParseInt(toks[2]).ok \/ ~ParseInt(toks[3]).ok
    THEN Raise(v, "header")
    ELSE WithLocals(
             load_data(v, f,
                       [rows |-> ParseInt(toks[2]).val, cols |-> ParseInt(toks[3]).val,
                        hastimes |-> IF TIMES \in Range(toks) THEN TRUE ELSE hastimes,
                        skipheader |-> 1, delimiter |-> None, dialog |-> None],
                       replot, tb, oc),
             [rows |-> ParseInt(toks[2]).val, cols |-> ParseInt(toks[3]).val,
              hastimes |-> IF TIMES \in Range(toks) THEN TRUE ELSE hastimes,
              skipheader |-> 1, delimiter |-> None, dialog |-> None])

\* change_data: rows and cols are known for a file without header;
\* "if rows == 1: rows, cols = cols, rows", then the file is read.
plain_data(v, f, sh, hastimes, delimiter, shown, replot, tb, oc) ==
    WithLocals(
        load_data(v, f,
                  [rows |-> IF sh[1] = 1 THEN sh[2] ELSE sh[1],
                   cols |-> IF sh[1] = 1 THEN sh[1] ELSE sh[2],
                   hastimes |-> hastimes, skipheader |-> 0,
                   delimiter |-> delimiter, dialog |-> shown],
                  replot, tb, oc),
        [rows |-> IF sh[1] = 1 THEN sh[2] ELSE sh[1],
         cols |-> IF sh[1] = 1 THEN sh[1] ELSE sh[2],
         hastimes |-> hastimes, skipheader |-> 0,
         delimiter |-> delimiter, dialog |-> shown])

\* A refused dialog that ends the application whether data is loaded or not.
refuse_quits(v, dlg) ==
    [v |-> v, out |-> "quit", where |-> "",
     loc |-> [NoLocals EXCEPT !.dialog = Some(dlg)]]

\* change_data: the dialog was rejected or gave no shape
refuse(v, dlg) ==
    [v |-> v, out |-> IF v.data = None THEN "quit" ELSE "return", where |-> "",
     loc |-> [NoLocals EXCEPT !.dialog = Some(dlg)]]

\* change_data: no header and no shape argument: the dialog is shown and
\* dlg is its answer.
ask_shape(v, f, dlg, replot, tb, oc) ==
    IF ~dlg.accepted \/ get_shape(dlg) = None THEN refuse(v, dlg)
    ELSE plain_data(v, f, get_shape(dlg).v, get_hastimes(dlg), get_delimiter(dlg),
                    Some(dlg), replot, tb, oc)

\* change_data(datapath, shape, replot, hastimes, delimiter); f = None is
\* datapath None, dlg is what the user answers if the dialog is shown.
change_data(v, f, shape, replot, hastimes, delimiter, dlg, tb, oc) ==
    IF f = None
    THEN Ok([v EXCEPT !.data = None, !.ndata = 0, !.x = None, !.y = None,
                      !.times = None])
    ELSE IF Contains(f.v.first, TSDATA)
    THEN header_data(v, f.v, Split(f.v.first, " "), hastimes, replot, tb, oc)
    ELSE IF shape = None THEN ask_shape(v, f.v, dlg, replot, tb, oc)
    ELSE plain_data(v, f.v, shape.v, hastimes, delimiter, None, replot, tb, oc)

(***************************************************************************)
(* tsplot.py                                                               *)
(***************************************************************************)
\* An is_1d that looks at the number of rows only.
is_1d_rows_only(ts) == Len(ts) = 1 \/ ts[1] = 1

\* is_1d(ts), ts the shape of the surface
is_1d(ts) == Len(ts) = 1 \/ ts[1] = 1 \/ ts[2] = 1

\* plot_ts(ts): the plotter it calls
plot_ts(ts) == IF is_1d(ts) THEN "plot_ts_1d" ELSE "plot_ts_2d"

\* plot_multiple_ts, the body of the loop: the plotter called for tss[i]
plot_subplot(ts) == IF is_1d(ts) THEN "plot_ts_1d" ELSE "plot_ts_2d"

\* int(np.ceil(n_plots / tcols))
CeilDiv(n, c) == -((-n) \div c)

\* "tempty <= empty"
fewer_or_equal(tempty, empty) == empty = None \/ tempty <= empty.v

\* "tempty < empty", empty being np.inf (None) before the first candidate
fewer(tempty, empty) == empty = None \/ tempty < empty.v

\* plot_multiple_ts: the loop over tcols in [5, 4, 3]
RECURSIVE try_cols(_, _, _, _)
try_cols(n_plots, tcs, c, empty) ==
    IF tcs = <<>> THEN c
    ELSE IF fewer(Head(tcs) * CeilDiv(n_plots, Head(tcs)) - n_plots, empty)
    THEN try_cols(n_plots, Tail(tcs), Head(tcs),
                  Some(Head(tcs) * CeilDiv(n_plots, Head(tcs)) - n_plots))
    ELSE try_cols(n_plots, Tail(tcs), c, empty)

\* plot_multiple_ts: cols when no arrangement is given
best_cols(n_plots) ==
    IF n_plots < 3 THEN n_plots ELSE try_cols(n_plots, <<5, 4, 3>>, -1, None)

\* plot_multiple_ts: <<rows, cols>>
arrange(n_plots, arr) ==
    IF arr # None THEN arr.v
    ELSE IF n_plots < 3 THEN <<1, best_cols(n_plots)>>
    ELSE <<CeilDiv(n_plots, best_cols(n_plots)), best_cols(n_plots)>>

(***************************************************************************)
(* Inputs.                                                                 *)
(***************************************************************************)
\* A data line of n values "0" separated by the character c
RECURSIVE DataLine(_, _)
DataLine(n, c) == IF n = 1 THEN <<"0">> ELSE DataLine(n - 1, c) \o <<c, "0">>

HeaderLine(r, c, t) ==
    TSDATA \o <<" ">> \o Str(r) \o <<" ">> \o Str(c)
        \o (IF t THEN <<" ">> \o TIMES ELSE <<>>)

\* Files with a header: 2 x 2 surfaces (one line each), with and without
\* times; one-dimensional surfaces of 3 values.
HeaderFiles ==
    {[first |-> HeaderLine(2, 2, FALSE), nlines |-> n, row |-> DataLine(4, " ")] :
        n \in 2..MaxLines}
    \cup {[first |-> HeaderLine(2, 2, TRUE), nlines |-> 3, row |-> DataLine(5, " ")],
          [first |-> HeaderLine(3, 1, FALSE), nlines |-> 3, row |-> DataLine(3, " ")]}

\* A file with a TIMES header and a single data line, given on the command
\* line.
ShortFile == [first |-> HeaderLine(2, 2, TRUE), nlines |-> 2, row |-> DataLine(5, " ")]

\* Files without header: the first line is a data line.
PlainFiles ==
    {[first |-> DataLine(4, " "), nlines |-> 3, row |-> DataLine(4, " ")],
     [first |-> DataLine(4, ","), nlines |-> 2, row |-> DataLine(4, ",")]}

Files == HeaderFiles \cup PlainFiles

Dialog(a, r, c, t, s) == [accepted |-> a, rows |-> r, cols |-> c, times |-> t, sep |-> s]

NoDialog == Dialog(FALSE, <<>>, <<>>, FALSE, <<>>)

\* Answers to the shape dialog for a file of blank-separated values:
\* rejected (with a valid shape typed or not), accepted with a field that is
\* no integer, accepted with a shape (2 x 2, or 1 x 3 with times).
Dialogs ==
    {NoDialog,
     Dialog(FALSE, Str(2), Str(2), FALSE, <<>>),
     Dialog(TRUE, <<"x">>, Str(2), FALSE, <<>>),
     Dialog(TRUE, Str(2), <<>>, FALSE, <<>>),
     Dialog(TRUE, Str(2), Str(2), FALSE, <<>>),
     Dialog(TRUE, Str(1), Str(3), TRUE, <<>>)}

\* The dialog is shown only for a file without header and without shape; for
\* the comma-separated file the user gives the shape and the delimiter.
DialogsFor(f, shape) ==
    IF f # None /\ ~Contains(f.v.first, TSDATA) /\ shape = None
    THEN IF Contains(f.v.row, <<",">>)
         THEN {Dialog(TRUE, Str(2), Str(2), FALSE, <<",">>)}
         ELSE Dialogs
    ELSE {NoDialog}

\* What the user types in the tool bar: numbers, and texts that are no
\* integer; a negative number of rows.
ColTexts == {Str(n) : n \in 1..MaxDim} \cup {<<>>, <<"2", ".", "0">>}
RowTexts == ColTexts \cup {Str(-2)}
IdxTexts == {Str(n) : n \in 0..MaxIdx} \cup {<<>>, <<"1", "a">>}

\* The command line: -r/-c, -tw/-th, -t, -d
CliSubplots == {<<r, c>> : r, c \in 1..MaxDim}
CliShapes == {None, Some(<<2, 2>>), Some(<<1, 3>>)}
CliDelimiters == {None, Some(<<",">>)}

\* PageSpec: the index field holds any number around the loaded range.
PageIdxTexts == {Str(n) : n \in (0 - MaxTotal)..(2 * MaxTotal)} \cup {<<>>, <<"1", "a">>}

\* PlotSpec: the shapes of one- and two-dimensional surfaces
Shapes == {<<a>> : a \in 1..MaxSide} \cup {<<a, b>> : a, b \in 1..MaxSide}

\* The list of n surfaces that repeats the pattern p
Repeat(p, n) == [k \in 1..n |-> p[((k - 1) % Len(p)) + 1]]

\* Lists of surfaces: one or two shapes repeated, and a list of one more
\* surface than there are colours.
Lists ==
    {Repeat(<<s>>, n) : s \in Shapes, n \in 0..MaxPlots}
    \cup {Repeat(<<s, t>>, n) : s \in Shapes, t \in Shapes, n \in 2..MaxPlots}
    \cup {Repeat(<<<<2, 2>>>>, n) : n \in {NumColors, NumColors + 1}}

Arrangements == {None, Some(<<MaxSide, MaxSide>>)}

(***************************************************************************)
(* Construction: TSVisualizer.__init__ and ControlToolbar.__init__.        *)
(***************************************************************************)
\* The fields before change_data and rearrange_plots have run; the tool bar
\* does not exist yet.
Unset == [data |-> None, ndata |-> 0, x |-> None, y |-> None, times |-> None,
          subplots |-> <<0, 0>>, nsubplots |-> 0,
          axs |-> "array", current |-> 0,
          rows_le |-> <<>>, cols_le |-> <<>>, idx_le |-> <<>>, total_lbl |-> <<>>]

\* __init__, the end: the tool bar, whose constructor ends with reset()
init_toolbar(b, loc) ==
    [v |-> IF b.out = "ok" THEN reset(b.v) ELSE b.v,
     out |-> b.out, where |-> b.where, loc |-> loc]

\* __init__ after change_data returned a: rearrange_plots(subplots)
init_plots(a, sp, oc) ==
    IF a.out # "ok" THEN a
    ELSE init_toolbar(rearrange_plots(a.v, Some(sp), oc), a.loc)

\* __init__: change_data(replot=False), rearrange_plots(subplots), then the
\* tool bar.  An exception or quit() in it ends the program before a viewer
\* exists.
Construct(f, sp, shape, hastimes, delimiter, dlg, oc) ==
    init_plots(change_data(Unset, f, shape, FALSE, hastimes, delimiter, dlg, FALSE, oc),
               sp, oc)

\* The history variable: the last handler that ran on the fields, how it
\* ended (r), its integer input (the index asked for, or the index before
\* paging), the texts it read from the tool bar and the file it opened.
History(op, r, arg, typed, file) ==
    [op |-> op, out |-> r.out, where |-> r.where, arg |-> arg, typed |-> typed,
     file |-> file, loc |-> r.loc]

\* No function of tsplot.py has been called.
PlotIdle ==
    /\ fn = "" /\ tss = <<>> /\ arrangement = None /\ colorcode = TRUE
    /\ rows = 0 /\ cols = 0 /\ i = 0 /\ pc = "idle" /\ calls = <<>> /\ shows = 0

\* The program after __init__ ended as c: a viewer, or nothing when the
\* constructor quit or raised.
Started(c, f) ==
    /\ InitView(IF c.out = "ok" THEN c.v ELSE Unset)
    /\ playact = "Play" /\ timer = FALSE /\ alive = (c.out = "ok")
    /\ last = History("init", c, 0, <<>>, f)
    /\ PlotIdle

Init ==
    \E f \in {None} \cup {Some(g) : g \in Files \cup {ShortFile}}, sp \in CliSubplots,
       shape \in CliShapes, hastimes \in BOOLEAN, delimiter \in CliDelimiters :
      \E dlg \in DialogsFor(f, shape), oc \in SubplotsOutcomes(sp) :
        Started(Construct(f, sp, shape, hastimes, delimiter, dlg, oc), f)

(***************************************************************************)
(* Events of the viewer.                                                   *)
(***************************************************************************)
\* Whether the application goes on after a handler that ended out: quit()
\* ends it; an exception that leaves a slot ends it or not, as the Qt
\* binding decides.
Survives(out) ==
    IF out = "quit" THEN {FALSE} ELSE IF out = "raise" THEN BOOLEAN ELSE {TRUE}

\* The handler op has run and ended as r.  An application that has ended
\* has no fields left.
Finish(op, r, arg, typed, file) ==
    \E a \in Survives(r.out) :
        /\ alive' = a
        /\ last' = History(op, r, arg, typed, file)
        /\ IF a THEN SetView(r.v) /\ UNCHANGED <<playact, timer>>
           ELSE SetView(Unset) /\ playact' = "Play" /\ timer' = FALSE
        /\ UNCHANGED plotvars

\* "Advance" (tool bar, right arrow)
Advance ==
    /\ alive
    /\ Finish("advance", advance(View), current, <<>>, None)

\* "Go back" (tool bar, left arrow)
GoBack ==
    /\ alive
    /\ Finish("goback", goback(View), current, <<>>, None)

\* _timer.timeout, connected to advance
Timeout ==
    /\ alive /\ timer
    /\ Finish("timeout", advance(View), current, <<>>, None)

\* ControlToolbar.play() and TSVisualizer.play()
Play ==
    /\ alive
    /\ timer' = ~timer
    /\ playact' = IF timer' THEN "Pause" ELSE "Play"
    /\ UNCHANGED <<viewvars, alive, last, plotvars>>

\* The user edits the index field, typing a text of T: editingFinished runs
\* change_number.
EditNumber(T) ==
    /\ alive
    /\ \E t \in T :
         Finish("change_number", change_number([View EXCEPT !.idx_le = t]),
                ParseInt(t).val - 1, <<t>>, None)

ChangeNumber == EditNumber(IdxTexts)

\* The outcomes of figure.subplots for the arrangement the fields hold.
TypedOutcomes(v) ==
    IF ParseInt(v.rows_le).ok /\ ParseInt(v.cols_le).ok
    THEN SubplotsOutcomes(<<ParseInt(v.rows_le).val, ParseInt(v.cols_le).val>>)
    ELSE {"raise"}

\* The user edits one arrangement field: editingFinished runs
\* change_arrangement.
ChangeArrangement ==
    /\ alive
    /\ \E v \in {[View EXCEPT !.rows_le = t] : t \in RowTexts}
                \cup {[View EXCEPT !.cols_le = t] : t \in ColTexts} :
         \E oc \in TypedOutcomes(v) :
           Finish("change_arrangement", change_arrangement(v, oc), 0,
                  <<v.rows_le, v.cols_le>>, None)

\* File > Open...: open_file with a file chosen runs change_data(replot=True).
OpenFile ==
    /\ alive
    /\ \E f \in Files :
         \E dlg \in DialogsFor(Some(f), None), oc \in SubplotsOutcomes(subplots) :
           Finish("open_file",
                  change_data(View, Some(f), None, TRUE, FALSE, None, dlg, TRUE, oc),
                  0, <<>>, Some(f))

\* File > Open... cancelled: the path is "" and nothing is loaded.
OpenCancelled ==
    /\ alive
    /\ UNCHANGED vars

\* File > Quit
Quit ==
    /\ alive
    /\ Finish("quit", [v |-> View, out |-> "quit", where |-> "", loc |-> NoLocals],
              0, <<>>, None)

Next ==
    \/ Advance
    \/ GoBack
    \/ Timeout
    \/ Play
    \/ ChangeNumber
    \/ ChangeArrangement
    \/ OpenFile
    \/ OpenCancelled
    \/ Quit

Spec == Init /\ [][Next]_vars

(***************************************************************************)
(* PageSpec: the viewer after a file with header "TSDATA 2 2" and n        *)
(* surfaces was opened, the arrangement r x c typed and some page shown.   *)
(* For 1 x 1 rearrange_plots raised once the axes were made, so _axs is a  *)
(* single Axes and the index is the one shown before.                      *)
(***************************************************************************)
Paging(n, r, c, k) ==
    reset([data |-> Some(<<n, 2, 2>>), ndata |-> n, x |-> Some(2), y |-> Some(2),
           times |-> None, subplots |-> <<r, c>>, nsubplots |-> r * c,
           axs |-> IF r * c = 1 THEN "scalar" ELSE "array", current |-> k * r * c,
           rows_le |-> <<>>, cols_le |-> <<>>, idx_le |-> <<>>, total_lbl |-> <<>>])

PageInit ==
    \E n \in 1..MaxTotal, r \in 1..MaxGrid, c \in 1..MaxGrid, k \in 0..MaxTotal :
        /\ k * r * c < n
        /\ InitView(Paging(n, r, c, k))
        /\ playact = "Play" /\ timer = FALSE /\ alive = TRUE
        /\ last = History("init", Ok(Unset), 0, <<>>, None)
        /\ PlotIdle

PageChangeNumber == EditNumber(PageIdxTexts)

PageNext ==
    \/ Advance
    \/ GoBack
    \/ Timeout
    \/ Play
    \/ PageChangeNumber

PageSpec == PageInit /\ [][PageNext]_vars

\* PageLive: the pages are turned by the buttons and by the timer, which
\* keeps firing while it is active (QTimer, interval 200).
PageLiveNext ==
    \/ Advance
    \/ GoBack
    \/ Timeout
    \/ Play

PageLive == PageInit /\ [][PageLiveNext]_vars /\ WF_vars(Timeout)

(***************************************************************************)
(* PlotSpec: plot_ts and plot_multiple_ts, with plot_ts_1d, plot_ts_2d and *)
(* plt.show recorded as the tests of tsplot_test.py record them.  No       *)
(* viewer runs.                                                            *)
(***************************************************************************)
PlotInit ==
    /\ InitView(Unset)
    /\ playact = "Play" /\ timer = FALSE /\ alive = FALSE
    /\ last = History("none", Ok(Unset), 0, <<>>, None)
    /\ PlotIdle

\* plot_ts(ts): the plotter is called without axes, makes its own figure and
\* shows it.
PlotTs ==
    /\ pc = "idle"
    /\ \E ts \in Shapes :
         /\ fn' = "plot_ts" /\ tss' = <<ts>>
         /\ calls' = <<plot_ts(ts)>>
         /\ shows' = 1
         /\ pc' = "done"
    /\ UNCHANGED <<arrangement, colorcode, rows, cols, i>>
    /\ UNCHANGED <<viewvars, playact, timer, alive, last>>

\* plot_multiple_ts(tss, arrangement, colorcode) up to the loop
PlotMultipleTs ==
    /\ pc = "idle"
    /\ \E l \in Lists, a \in Arrangements, cc \in BOOLEAN :
         /\ fn' = "plot_multiple_ts" /\ tss' = l
         /\ arrangement' = a /\ colorcode' = cc
         /\ rows' = arrange(Len(l), a)[1]
         /\ cols' = arrange(Len(l), a)[2]
    /\ i' = 0 /\ pc' = "loop"
    /\ UNCHANGED <<calls, shows>>
    /\ UNCHANGED <<viewvars, playact, timer, alive, last>>

\* One iteration of "for i in range(len(tss))": colors[i] is an IndexError
\* past the last colour, add_subplot(rows, cols, i+1) a ValueError past the
\* last slot.
PlotLoop ==
    /\ pc = "loop" /\ i < Len(tss)
    /\ IF (colorcode /\ i >= NumColors) \/ i + 1 > rows * cols
       THEN pc' = "raised" /\ UNCHANGED <<i, calls>>
       ELSE /\ calls' = Append(calls, plot_subplot(tss[i + 1]))
            /\ i' = i + 1
            /\ pc' = pc
    /\ UNCHANGED <<fn, tss, arrangement, colorcode, rows, cols, shows>>
    /\ UNCHANGED <<viewvars, playact, timer, alive, last>>

\* plt.show() after the loop
PlotShow ==
    /\ pc = "loop" /\ i = Len(tss)
    /\ shows' = shows + 1
    /\ pc' = "done"
    /\ UNCHANGED <<fn, tss, arrangement, colorcode, rows, cols, i, calls>>
    /\ UNCHANGED <<viewvars, playact, timer, alive, last>>

PlotNext ==
    \/ PlotTs
    \/ PlotMultipleTs
    \/ PlotLoop
    \/ PlotShow

PlotSpec == PlotInit /\ [][PlotNext]_vars

(***************************************************************************)
(* Properties of the viewer (Spec, PageSpec).                              *)
(***************************************************************************)
\* C1: the paging index is bounded: in every state of the running viewer,
\* whether or not a file is loaded, 0 <= current, and current < total
\* whenever total > 0.
C1_IndexBounded ==
    alive => (0 <= current /\ (ndata > 0 => current < ndata))

\* C2: paging wraps to the other end.  With total > 0, nsubplots >= 1 and the
\* index before paging (last.arg) a multiple of nsubplots, advance (the
\* button or the timer) leaves current = old + nsubplots if that is < total
\* and 0 otherwise; goback leaves current = old - nsubplots if that is >= 0
\* and the start of the last page, nsubplots * ((total - 1) div nsubplots),
\* otherwise.
C2_PagingWraps ==
    (alive /\ ndata > 0 /\ nsubplots >= 1
       /\ last.op \in {"advance", "timeout", "goback"}
       /\ last.arg >= 0 /\ last.arg % nsubplots = 0)
    => IF last.op = "goback"
       THEN current = IF last.arg - nsubplots >= 0 THEN last.arg - nsubplots
                      ELSE nsubplots * ((ndata - 1) \div nsubplots)
       ELSE current = IF last.arg + nsubplots < ndata THEN last.arg + nsubplots
                      ELSE 0

\* Go back on the first page of a file that fills its pages exactly: the
\* last page is shown.
C2_Witness ==
    /\ alive /\ last.op = "goback" /\ last.arg = 0
    /\ nsubplots > 1 /\ ndata > nsubplots /\ ndata % nsubplots = 0
    /\ current = ndata - nsubplots

\* C10: seeking without wrap only checks boundaries.  With total > 0 and
\* nsubplots >= 1, after change_number read the integer idx + 1 from the
\* index field (last.arg = idx), current is 0 when idx < 0, the start of the
\* last page when idx >= total, and the start of the page that contains idx
\* otherwise.
C10_SeekChecksBounds ==
    (alive /\ ndata > 0 /\ nsubplots >= 1 /\ last.op = "change_number"
       /\ ParseInt(last.typed[1]).ok)
    => IF last.arg < 0 THEN current = 0
       ELSE IF last.arg >= ndata
       THEN current = nsubplots * ((ndata - 1) \div nsubplots)
       ELSE /\ current <= last.arg /\ last.arg < current + nsubplots
            /\ current % nsubplots = 0

\* A number past the total was typed while the first page was shown: the
\* last page is shown, not the first.
C10_Witness ==
    /\ alive /\ last.op = "change_number" /\ ParseInt(last.typed[1]).ok
    /\ last.arg >= ndata /\ nsubplots > 1 /\ ndata > nsubplots
    /\ current = nsubplots * ((ndata - 1) \div nsubplots)

\* The tokens of the header line of the file the last handler opened
HeaderTokens == Split(last.file.v.first, " ")

\* C4: when the first line of the file opened by change_data is a TSDATA
\* header, rows and cols are the numbers of the header, no dialog is shown,
\* the header line is skipped, the delimiter is None, and, when the header
\* carries TIMES, the first column is split off as the times column (one
\* time per data line).
C4_HeaderDecides ==
    (last.op \in {"init", "open_file"} /\ last.file # None
       /\ Contains(last.file.v.first, TSDATA))
    => /\ last.loc.dialog = None
       /\ last.loc.rows = ParseInt(HeaderTokens[2]).val
       /\ last.loc.cols = ParseInt(HeaderTokens[3]).val
       /\ last.loc.skipheader = 1
       /\ last.loc.delimiter = None
       /\ (TIMES \in Range(HeaderTokens)
             => /\ last.where # "times"
                /\ (alive /\ last.out = "ok"
                      => times = Some(last.file.v.nlines - 1)
                         /\ ndata = last.file.v.nlines - 1))

\* C5: is2d() is True if the loaded surfaces are two-dimensional (the data
\* has the shape (n, rows, cols)) and False if they are one-dimensional.
C5_Is2dMeansTwoDimensional ==
    (alive /\ data # None) => (is2d(View) <=> Len(data.v) = 3)

\* The answer to the shape dialog gives no shape
Refused(d) == ~d.accepted \/ ~ParseInt(d.rows).ok \/ ~ParseInt(d.cols).ok

\* C6: when open_file opens a file without TSDATA header, the shape dialog
\* is shown; if it is rejected or its rows/cols are not both integers then,
\* with data loaded, change_data returns and data, total, times, current
\* index and arrangement are unchanged, and, with no data loaded, the
\* application quits.
C6_RefusedDialogKeepsData ==
    [][(last'.op = "open_file" /\ ~Contains(last'.file.v.first, TSDATA))
         => /\ last'.loc.dialog # None
            /\ (Refused(last'.loc.dialog.v)
                  => IF data # None
                     THEN /\ alive' /\ last'.out = "return"
                          /\ data' = data /\ ndata' = ndata /\ times' = times
                          /\ current' = current /\ subplots' = subplots
                          /\ nsubplots' = nsubplots
                     ELSE ~alive' /\ last'.out = "quit")]_vars

\* The dialog was refused while a page after the first was shown.
C6_Witness ==
    /\ alive /\ last.op = "open_file" /\ last.loc.dialog # None
    /\ Refused(last.loc.dialog.v) /\ last.loc.dialog.v.accepted
    /\ data # None /\ current > 0

\* The last handler read a text that is no integer from the tool bar
InvalidTyped(h) ==
    \/ h.op = "change_number" /\ ~ParseInt(h.typed[1]).ok
    \/ h.op = "change_arrangement"
         /\ (~ParseInt(h.typed[1]).ok \/ ~ParseInt(h.typed[2]).ok)

\* C7, as stated: when the text of the index field or of an arrangement
\* field is not an integer, current, arrangement, nsubplots and data are
\* unchanged and the fields show the arrangement and current + 1.
C7_ResetShowsCurrentPlusOne ==
    [][InvalidTyped(last')
         => /\ alive'
            /\ current' = current /\ subplots' = subplots
            /\ nsubplots' = nsubplots /\ data' = data /\ ndata' = ndata
            /\ rows_le' = Str(subplots[1]) /\ cols_le' = Str(subplots[2])
            /\ idx_le' = Str(current + 1)]_vars

\* C7, amended: ... and the fields show the arrangement and current + 1, or
\* 0 in the index field when no surface is loaded (total = 0).
C7_InvalidTextResets ==
    [][InvalidTyped(last')
         => /\ alive'
            /\ current' = current /\ subplots' = subplots
            /\ nsubplots' = nsubplots /\ data' = data /\ ndata' = ndata
            /\ rows_le' = Str(subplots[1]) /\ cols_le' = Str(subplots[2])
            /\ idx_le' = IF ndata = 0 THEN Str(0) ELSE Str(current + 1)]_vars

\* A text that is no integer was typed in an arrangement field while a page
\* after the first was shown.
C7_Witness ==
    /\ alive /\ last.op = "change_arrangement" /\ InvalidTyped(last)
    /\ current > 0 /\ idx_le = Str(current + 1)

(***************************************************************************)
(* Properties of tsplot.py (PlotSpec).                                     *)
(***************************************************************************)
\* The empty slots of n surfaces in rows of c
Slack(n, c) == c * ((n + c - 1) \div c) - n

\* C3: without an arrangement, plot_multiple_ts lays n < 3 surfaces out in 1
\* row of n columns; for n >= 3, cols is in {3, 4, 5}, rows = ceil(n / cols),
\* no c in {3, 4, 5} leaves fewer empty slots, a tie goes to the larger
\* number of columns, and rows * cols >= n.
C3_ArrangementMinimal ==
    (fn = "plot_multiple_ts" /\ arrangement = None)
    => IF Len(tss) < 3 THEN rows = 1 /\ cols = Len(tss)
       ELSE /\ cols \in {3, 4, 5}
            /\ rows * cols >= Len(tss) /\ (rows - 1) * cols < Len(tss)
            /\ \A c \in {3, 4, 5} :
                 /\ Slack(Len(tss), cols) <= Slack(Len(tss), c)
                 /\ (Slack(Len(tss), cols) = Slack(Len(tss), c) => c <= cols)

\* 11 surfaces: 4 and 3 columns both leave one slot empty, 4 are taken.
C3_Witness ==
    /\ fn = "plot_multiple_ts" /\ arrangement = None /\ pc = "done"
    /\ Len(tss) = 11 /\ cols = 4 /\ rows = 3
    /\ Slack(11, 3) = Slack(11, 4)

\* A surface is flat: one dimension, or two of which one has size 1
Flat(ts) == Len(ts) = 1 \/ (Len(ts) = 2 /\ (ts[1] = 1 \/ ts[2] = 1))

\* The plotter for a surface
PlotterFor(ts) == IF Flat(ts) THEN "plot_ts_1d" ELSE "plot_ts_2d"

\* C8: plot dispatch is exact.  plot_ts(ts) calls the plotter that matches
\* is_1d(ts) and no other; plot_multiple_ts(tss) calls, in list order, the
\* plotter that matches each surface, len(tss) calls in all, and then shows
\* the figure exactly once; it does not end otherwise.
C8_DispatchExact ==
    /\ fn = "plot_ts" => calls = <<PlotterFor(tss[1])>>
    /\ (fn = "plot_multiple_ts" /\ arrangement = None /\ colorcode)
         => /\ pc \in {"loop", "done"}
            /\ Len(calls) <= Len(tss)
            /\ \A k \in 1..Len(calls) : calls[k] = PlotterFor(tss[k])
            /\ shows = IF pc = "done" THEN 1 ELSE 0
            /\ (pc = "done" => Len(calls) = Len(tss))

\* C9: is_1d(ts) is True exactly when the shape of ts has one dimension, or
\* two of which at least one has size 1; it is False for every shape of two
\* dimensions with both sizes >= 2.
C9_Is1dMeansFlat ==
    \A k \in 1..Len(tss) :
        /\ is_1d(tss[k]) <=> Flat(tss[k])
        /\ (Len(tss[k]) = 2 /\ tss[k][1] >= 2 /\ tss[k][2] >= 2) => ~is_1d(tss[k])

\* A column of two values and a 2 x 2 surface were plotted: the first as a
\* one-dimensional surface, the second not.
C9_Witness ==
    /\ pc = "done" /\ tss = <<<<2, 1>>, <<2, 2>>>>
    /\ calls = <<"plot_ts_1d", "plot_ts_2d">>

(***************************************************************************)
(* Properties of the pages (Spec, PageSpec, PageLive).                     *)
(***************************************************************************)
\* C11: pages stay aligned.  In every state of the running viewer current is
\* a multiple of nsubplots (= rows * cols); after rearrange_plots (the
\* arrangement typed in the tool bar) and after a file was loaded with
\* replot, current is 0.
C11_PagesAligned ==
    alive => /\ subplots[1] * subplots[2] = nsubplots
             /\ \E k \in -(MaxTotal + MaxLines)..(MaxTotal + MaxLines) :
                  current = k * nsubplots
             /\ (last.op \in {"change_arrangement", "open_file"} /\ last.out = "ok")
                  => current = 0

\* The fields after k more advance() / goback()
RECURSIVE AdvanceTimes(_, _)
AdvanceTimes(v, k) == IF k = 0 THEN v ELSE AdvanceTimes(advance(v).v, k - 1)

RECURSIVE GoBackTimes(_, _)
GoBackTimes(v, k) == IF k = 0 THEN v ELSE GoBackTimes(goback(v).v, k - 1)

\* The page starts 0, nsubplots, 2 * nsubplots, ... < total
PageStarts == {p \in 0..(ndata - 1) : p % nsubplots = 0}

\* ceil(total / nsubplots)
NumPages == (ndata + nsubplots - 1) \div nsubplots

\* From the page shown, NumPages advances visit every page start exactly once
\* and end on the page shown; the gobacks visit the same pages in the
\* reverse order.
FullCircle ==
    (alive /\ ndata > 0 /\ nsubplots >= 1)
    => /\ {AdvanceTimes(View, k).current : k \in 1..NumPages} = PageStarts
       /\ Cardinality(PageStarts) = NumPages
       /\ AdvanceTimes(View, NumPages).current = current
       /\ \A k \in 0..NumPages :
            GoBackTimes(View, k).current = AdvanceTimes(View, NumPages - k).current

\* A goback right after an advance, or an advance right after a goback,
\* shows the page shown before the two.
Restores ==
    (alive' /\ ndata > 0 /\ nsubplots >= 1
       /\ \/ last.op \in {"advance", "timeout"} /\ last'.op = "goback"
          \/ last.op = "goback" /\ last'.op \in {"advance", "timeout"})
    => current' = last.arg

\* Page k is shown (or there is no page k, or no viewer)
OnPage(k) == ~alive \/ k * nsubplots >= ndata \/ current = k * nsubplots

\* C12: every loaded surface can be browsed to.  With total > 0 and
\* nsubplots >= 1, from any page shown, ceil(total / nsubplots) advances visit
\* every page start exactly once and come back to the page shown, the gobacks
\* visit the same pages in the reverse order, goback after advance (and
\* advance after goback) restores the index, and, if from some time on the
\* timer stays active and only advances happen, every page is shown again and
\* again.
C12_EveryPageBrowsed ==
    /\ []FullCircle
    /\ [][Restores]_vars
    /\ (<>[](alive /\ timer /\ last.op \in {"advance", "timeout"}))
         => \A k \in 0..MaxTotal : []<>OnPage(k)

\* The timer turned the last of at least three pages over to the first.
C12_Witness ==
    /\ alive /\ timer /\ last.op = "timeout" /\ ndata > 2 * nsubplots
    /\ nsubplots > 1 /\ last.arg = nsubplots * ((ndata - 1) \div nsubplots)
    /\ current = 0

====
